---- MODULE Spec2Model ----
(***************************************************************************)
(* Model of objects_relations_SolarPanel.cpp: SolarPanel, PanelSetup,      *)
(* LightSource, LuminationAngle, SolarPlant and the driver main().         *)
(*                                                                         *)
(* Number representation.                                                  *)
(*  - int is 32 bits wide; IntMul gives the product the build's imul       *)
(*    leaves (two's complement wrap-around), and IntMulOverflows says when *)
(*    the C++ multiplication is undefined behaviour.                       *)
(*  - float has a 24-bit significand; ToFloat and FloatMul round to        *)
(*    nearest, ties to even, as the conversions and products of the        *)
(*    float members oneElementX, oneElementY, oneElementPowerinW do.       *)
(*  - angles are counted in steps of pi/16 with the program's own          *)
(*    pi = 3.1415, so pi is 16, pi/2 is 8 and pi/16 is 1. Every angle the   *)
(*    driver uses is a whole number of such steps.                         *)
(*  - std::cos is the table CosTable: cos(k * 3.1415/16) in units of        *)
(*    1/20000, rounded to nearest. Summing the double additions of the     *)
(*    sweep gives the same loop counts as exact steps do (16 and 17).      *)
(*  - a double that depends on a cosine (currentPower, efficiency,         *)
(*    currentOutput) is therefore counted in 1/20000 of its unit.          *)
(***************************************************************************)
EXTENDS Integers, Sequences, FiniteSets

VARIABLES
    testSetup,   \* main's PanelSetup testSetup (line 164)
    theSun,      \* main's LightSource theSun (line 172)
    powerPlant,  \* main's SolarPlant powerPlant (line 174)
    stray,       \* TRUE once a write landed outside powerPlant's m_setups
    lastCall,    \* the last operation called: its name, receiver, arguments, result
    nops,        \* number of mutating operations called so far
    pc,          \* main's position
    idx,         \* main's loop variable (i, element)
    samples      \* the lines the sweep loops printed so far

vars == <<testSetup, theSun, powerPlant, stray, lastCall, nops, pc, idx, samples>>

----------------------------------------------------------------------------
(* Arithmetic of the machine types *)

IntMax == 2147483647
FloatMant == 16777216
Half == 65536

Abs(n) == IF n < 0 THEN -n ELSE n

\* int * int is undefined when the true product is outside [-2^31, 2^31 - 1]
IntMulOverflows(a, b) ==
    LET ma == Abs(a)
        mb == Abs(b)
    IN  /\ mb # 0
        /\ ma > IntMax \div mb
        /\ ~ ( /\ (a < 0) # (b < 0)
               /\ ma = (IntMax \div mb) + 1
               /\ (IntMax % mb) = mb - 1 )

\* the low 32 bits of ma * mb (ma, mb >= 0), read as a signed int, computed
\* on 16-bit halves so that no intermediate leaves the 32-bit range
WrapMag(ma, mb) ==
    LET ah == ma \div Half
        al == ma % Half
        bh == mb \div Half
        bl == mb % Half
        b1 == bl \div 256
        b0 == bl % 256
        t  == al * b1
        lo == (t % 256) * 256 + al * b0
        hi == (((ah * bl) % Half) + ((al * bh) % Half) + (t \div 256) + (lo \div Half)) % Half
    IN  IF hi >= Half \div 2 THEN (hi - Half) * Half + (lo % Half)
                             ELSE hi * Half + (lo % Half)

IntMul(a, b) ==
    IF ~ IntMulOverflows(a, b) THEN a * b
    ELSE LET w == WrapMag(Abs(a), Abs(b))
         IN  IF (a < 0) = (b < 0) \/ w = -IntMax - 1 THEN w ELSE -w

RECURSIVE FloatUlp(_)
FloatUlp(m) == IF m < FloatMant THEN 1 ELSE 2 * FloatUlp(m \div 2)

\* int or double -> float: round to nearest, ties to even
ToFloat(n) ==
    LET m == Abs(n)
        u == FloatUlp(m)
        q == m \div u
        r == m % u
        f == IF 2 * r > u \/ (2 * r = u /\ q % 2 = 1) THEN (q + 1) * u ELSE q * u
    IN  IF n < 0 THEN -f ELSE f

\* float * float
FloatMul(a, b) == ToFloat(a * b)

\* a double result: a number, or the NaN that 0.0/0.0 gives
Num(v) == [kind |-> "value", val |-> v]
NaN == [kind |-> "nan", val |-> 0]
Inf(s) == [kind |-> "inf", val |-> s]
Void == [kind |-> "void", val |-> 0]
Trap == [kind |-> "trap", val |-> 0]

\* (k * x) / y in double arithmetic, for y dividing x: the quotient is taken
\* before the factor k so that no intermediate leaves the 32-bit range
DoubleMulDiv(k, x, y) ==
    IF y = 0 THEN (IF x = 0 THEN NaN ELSE Inf(IF x < 0 THEN -1 ELSE 1))
    ELSE LET s == IF (x < 0) = (y < 0) THEN 1 ELSE -1
             q == Abs(x) \div Abs(y)
             r == Abs(x) % Abs(y)
         IN  Num(s * (k * q + ((k * r) \div Abs(y))))

----------------------------------------------------------------------------
(* pi and std::cos *)

pi == 16

CosTable ==
    << 20000, 19616, 18478, 16630, 14142, 11112, 7654, 3903, 1,
       -3901, -7653, -11110, -14141, -16629, -18477, -19615, -20000,
       -19616, -18478, -16631, -14144, -11113, -7656, -3904, -3,
       3899, 7651, 11109, 14140, 16628, 18476, 19615, 20000 >>

stdcos(a) == CosTable[Abs(a) + 1]

----------------------------------------------------------------------------
(* class SolarPanel *)

oneElementX == 6
oneElementY == 10
oneElementPowerinW == 15

SolarPanel(dimX, dimY) == [m_dimx |-> dimX, m_dimy |-> dimY]

dimXinCM(p) == FloatMul(ToFloat(p.m_dimx), oneElementX)
dimYinCM(p) == FloatMul(ToFloat(p.m_dimy), oneElementY)
areainCM2(p) == dimXinCM(p) * dimYinCM(p)
maxPowerinW(p) == FloatMul(ToFloat(IntMul(p.m_dimx, p.m_dimy)), oneElementPowerinW)
shrinkXto(p, nelements) == [p EXCEPT !.m_dimx = nelements]
shrinkYto(p, nelements) == [p EXCEPT !.m_dimy = nelements]

----------------------------------------------------------------------------
(* class PanelSetup *)

PanelSetup(angle, panel) == [m_orientationAngle |-> angle, m_panel |-> panel]

DefaultPanel == SolarPanel(20, 30)
DefaultSetup == PanelSetup(0, DefaultPanel)

\* the cosine factor applied without the test of its sign
currentPower_unclamped(s, angleInRadians) ==
    maxPowerinW(s.m_panel) * stdcos(angleInRadians)

\* the cosine tested but not applied
currentPower_flat(s, angleInRadians) ==
    IF stdcos(angleInRadians) > 0 THEN maxPowerinW(s.m_panel) ELSE 0

currentPower(s, angleInRadians) ==
    IF stdcos(angleInRadians) > 0
    THEN maxPowerinW(s.m_panel) * stdcos(angleInRadians)
    ELSE 0

efficiency(s, angleInRadians) ==
    IF stdcos(angleInRadians) > 0
    THEN DoubleMulDiv(100, currentPower(s, angleInRadians), maxPowerinW(s.m_panel))
    ELSE Num(0)

getAngle(s) == s.m_orientationAngle
setAngle(s, newangleInRadians) == [s EXCEPT !.m_orientationAngle = newangleInRadians]
getPanel(s) == s.m_panel
setNPanel(s, nx, ny) == [s EXCEPT !.m_panel = shrinkYto(shrinkXto(@, nx), ny)]

----------------------------------------------------------------------------
(* struct LightSource *)

LightSource == [m_SourceAngle |-> 0]
setSourceAngle(l, LightSourceAngle) == [l EXCEPT !.m_SourceAngle = LightSourceAngle]
moveSourceAngleBy(l, dSourceAngle) == [l EXCEPT !.m_SourceAngle = @ + dSourceAngle]
getSourceAngle(l) == l.m_SourceAngle

LuminationAngle(somesetup, somelightsource) ==
    IF getAngle(somesetup) < 0
    THEN pi \div 2 - getSourceAngle(somelightsource) + getAngle(somesetup)
    ELSE pi \div 2 + getSourceAngle(somelightsource) - getAngle(somesetup)

----------------------------------------------------------------------------
(* class SolarPlant : protected PanelSetup *)

NSetups == 10
Slots == 0 .. NSetups - 1

\* SolarPlant() = default: the base PanelSetup and every m_setups[i] are
\* default-constructed
SolarPlant == [base |-> DefaultSetup, m_setups |-> [i \in Slots |-> DefaultSetup]]

\* SolarPlant(const PanelSetup setups[10]): the body is empty, so the members
\* are default-constructed and setups is not read
SolarPlantFromArray(setups) == SolarPlant

\* an assignment that also reaches the slot after index
setPanelSetup_spill(plant, setup, index) ==
    [plant EXCEPT !.m_setups =
        [i \in Slots |-> IF i \in {index, index + 1} THEN setup ELSE @[i]]]

\* m_setups[index] = setup, index in 0..9
setPanelSetup(plant, setup, index) == [plant EXCEPT !.m_setups[index] = setup]

RECURSIVE OutputLoop(_, _, _, _)
OutputLoop(plant, source, i, output) ==
    IF i < NSetups
    THEN OutputLoop(plant, source, i + 1,
             output + currentPower(plant.m_setups[i],
                                   LuminationAngle(plant.m_setups[i], source)))
    ELSE output

\* a loop that starts at slot 1
currentOutput_fromOne(plant, source) == OutputLoop(plant, source, 1, 0)

currentOutput(plant, source) == OutputLoop(plant, source, 0, 0)

\* m_setups[index].getPanel().shrinkXto(nx); ...shrinkYto(ny), index in 0..9
setNelementXYofaPanel(plant, nx, ny, index) ==
    [plant EXCEPT !.m_setups[index].m_panel = shrinkYto(shrinkXto(@, nx), ny)]

\* the lines print() writes: index, angle, panel area
print(plant) ==
    [i \in Slots |-> <<i, getAngle(plant.m_setups[i]), areainCM2(getPanel(plant.m_setups[i]))>>]

----------------------------------------------------------------------------
(* The record of a call: operation, arguments, result *)

Call(op, args, res) == [op |-> op, args |-> args, res |-> res]
NoCall == Call("none", <<>>, Void)

Source(a) == setSourceAngle(LightSource, a)

\* main's objects at line 174: testSetup(-pi/2, SolarPanel(10, 10)) after setNPanel(2, 3)
TestSetup164 == PanelSetup(-(pi \div 2), SolarPanel(10, 10))
TestSetup165 == setNPanel(TestSetup164, 2, 3)

\* powerPlant after the loop of lines 175-177
UniformPlant == [SolarPlant EXCEPT !.m_setups = [i \in Slots |-> TestSetup165]]

\* powerPlant after lines 204-214: 0..3 at pi/4 with 10 x 10 panels, 4..5 at pi/2,
\* 6..9 at -pi/4, the last six with the panel they were installed with
HeteroSetups ==
    [i \in Slots |->
        IF i <= 3 THEN PanelSetup(pi \div 4, SolarPanel(10, 10))
        ELSE IF i <= 5 THEN PanelSetup(pi \div 2, DefaultPanel)
        ELSE PanelSetup(-(pi \div 4), DefaultPanel)]
HeteroPlant == [SolarPlant EXCEPT !.m_setups = HeteroSetups]

----------------------------------------------------------------------------
(* Specification Spec: the operations of SolarPlant, called in any order *)

MaxOps == 2

InRangeInputs == {0, 4, NSetups - 1}
OutOfRangeInputs == {-1, NSetups}
InstallAngles == {pi \div 4, -(pi \div 4)}
ResizeInputs == {<<10, 10>>, <<0, 5>>}
SourceAngles == {-(pi \div 2), 0, 5, pi \div 2 + pi \div 16}

\* what an indexed write with index outside 0..9 can leave behind (undefined
\* behaviour): m_setups[-1] is where the base PanelSetup lies, anything else is
\* memory outside the plant. written is what the write would leave in the base.
\* Each outcome is <<plant, stray>>.
OutOfRangeWrite(plant, s, index, written) ==
    {<<plant, TRUE>>} \cup
    (IF index = -1 THEN {<<[plant EXCEPT !.base = written], s>>} ELSE {})

PlantInit ==
    /\ testSetup = TestSetup165
    /\ theSun = LightSource
    /\ powerPlant \in {SolarPlant, UniformPlant, HeteroPlant}
    /\ stray = FALSE
    /\ lastCall = NoCall
    /\ nops = 0
    /\ pc = "api"
    /\ idx = 0
    /\ samples = <<>>

Mutation == nops < MaxOps /\ nops' = nops + 1 /\ UNCHANGED <<theSun, pc, idx, samples>>
Query == UNCHANGED <<testSetup, theSun, powerPlant, stray, nops, pc, idx, samples>>

\* powerPlant.setPanelSetup(setup, index), lines 135-137
SetPanelSetup(setup, index) ==
    /\ Mutation
    /\ IF index \in Slots
       THEN /\ powerPlant' = setPanelSetup(powerPlant, setup, index)
            /\ stray' = stray
       ELSE \E o \in OutOfRangeWrite(powerPlant, stray, index, setup) :
                /\ powerPlant' = o[1]
                /\ stray' = o[2]
    /\ lastCall' = Call("setPanelSetup", <<setup, index>>, Void)
    /\ UNCHANGED testSetup

\* powerPlant.setNelementXYofaPanel(nx, ny, index), lines 149-152
SetNelementXYofaPanel(nx, ny, index) ==
    /\ Mutation
    /\ IF index \in Slots
       THEN /\ powerPlant' = setNelementXYofaPanel(powerPlant, nx, ny, index)
            /\ stray' = stray
       ELSE \E o \in OutOfRangeWrite(powerPlant, stray, index,
                                     setNPanel(powerPlant.base, nx, ny)) :
                /\ powerPlant' = o[1]
                /\ stray' = o[2]
    /\ lastCall' = Call("setNelementXYofaPanel", <<nx, ny, index>>, Void)
    /\ UNCHANGED testSetup

\* testSetup.setNPanel(nx, ny), lines 81-84
TestSetupSetNPanel(nx, ny) ==
    /\ Mutation
    /\ testSetup' = setNPanel(testSetup, nx, ny)
    /\ lastCall' = Call("testSetup.setNPanel", <<nx, ny>>, Void)
    /\ UNCHANGED <<powerPlant, stray>>

\* powerPlant = SolarPlant(setups), lines 131-133
ConstructFromArray(setups) ==
    /\ Mutation
    /\ powerPlant' = SolarPlantFromArray(setups)
    /\ lastCall' = Call("SolarPlant(setups)", <<setups>>, Void)
    /\ UNCHANGED <<testSetup, stray>>

\* powerPlant.currentOutput(source), lines 141-147
CurrentOutput(source) ==
    /\ Query
    /\ lastCall' = Call("currentOutput", <<source>>, Num(currentOutput(powerPlant, source)))

\* powerPlant.print(), lines 153-156
Report ==
    /\ Query
    /\ lastCall' = Call("print", <<>>, [kind |-> "lines", val |-> print(powerPlant)])

Next ==
    \/ \E index \in InRangeInputs \cup OutOfRangeInputs :
          \E setup \in {testSetup} \cup {PanelSetup(a, DefaultPanel) : a \in InstallAngles} :
             SetPanelSetup(setup, index)
    \/ \E index \in InRangeInputs \cup OutOfRangeInputs :
          \E n \in ResizeInputs : SetNelementXYofaPanel(n[1], n[2], index)
    \/ \E n \in ResizeInputs : TestSetupSetNPanel(n[1], n[2])
    \/ \E setups \in {[i \in Slots |-> testSetup], HeteroSetups} : ConstructFromArray(setups)
    \/ \E a \in SourceAngles : CurrentOutput(Source(a))
    \/ Report

Spec == PlantInit /\ [][Next]_vars

----------------------------------------------------------------------------
(* Claims checked under Spec *)

SlotPower(plant, source, i) ==
    currentPower(plant.m_setups[i], LuminationAngle(plant.m_setups[i], source))

RECURSIVE SumOver(_, _, _)
SumOver(S, plant, source) ==
    IF S = {} THEN 0
    ELSE LET i == CHOOSE j \in S : TRUE
         IN  SlotPower(plant, source, i) + SumOver(S \ {i}, plant, source)

PoweredSlots(plant) == {i \in Slots : maxPowerinW(plant.m_setups[i].m_panel) # 0}

\* C1: after powerPlant = SolarPlant(setups), slot i of the plant holds the
\* orientation and the element counts of setups[i], for every i in 0..9.
C1_ConstructorCopiesArray ==
    lastCall.op = "SolarPlant(setups)" =>
        \A i \in Slots : powerPlant.m_setups[i] = lastCall.args[1][i]

\* C2: currentOutput(source) is the sum over the ten slots of the slot's
\* currentPower at the incidence resolved from the slot's own orientation; a
\* slot of zero peak power adds 0, so the sum over the other slots is the same.
C2_OutputIsSumOfSlots ==
    lastCall.op = "currentOutput" =>
        /\ lastCall.res = Num(SumOver(Slots, powerPlant, lastCall.args[1]))
        /\ lastCall.res = Num(SumOver(PoweredSlots(powerPlant), powerPlant, lastCall.args[1]))

\* a plant of several orientations, one slot of zero peak power, lit
C2_Witness ==
    /\ lastCall.op = "currentOutput"
    /\ lastCall.res.val > 0
    /\ PoweredSlots(powerPlant) # Slots
    /\ Cardinality({getAngle(powerPlant.m_setups[i]) : i \in Slots}) >= 3
    /\ Cardinality({SlotPower(powerPlant, lastCall.args[1], i) : i \in Slots}) >= 3

C7_OutOfRangeIsBoundsError ==
    [][ LET c == lastCall'
            index == IF c.op = "setPanelSetup" THEN c.args[2] ELSE c.args[3]
        IN  (c.op \in {"setPanelSetup", "setNelementXYofaPanel"} /\ index \notin Slots) =>
                /\ c.res.kind = "BoundsError"
                /\ powerPlant' = powerPlant
                /\ stray' = stray
                /\ testSetup' = testSetup
      ]_vars

----------------------------------------------------------------------------
(* Specification SpecMount: the operations of one PanelSetup, testSetup *)

MountAngles == {-(pi \div 2), -(pi \div 4), 0, pi \div 4, pi \div 2}
MountDims == {<<20, 30>>, <<10, 10>>, <<2, 3>>, <<0, 5>>, <<3, 0>>, <<-1, 2>>}
QueryAngles == -pi .. (pi + pi \div 2)
SweepAngles == -(pi \div 2) .. (pi \div 2 + pi \div 16)

MountInit ==
    /\ testSetup \in {DefaultSetup, TestSetup164}
    /\ theSun = LightSource
    /\ powerPlant = SolarPlant
    /\ stray = FALSE
    /\ lastCall = NoCall
    /\ nops = 0
    /\ pc = "api"
    /\ idx = 0
    /\ samples = <<>>

MountFrame == UNCHANGED <<theSun, powerPlant, stray, nops, pc, idx, samples>>

\* PanelSetup testSetup(angle, SolarPanel(dimX, dimY)), lines 64-65
MountConstruct(angle, dimX, dimY) ==
    /\ testSetup' = PanelSetup(angle, SolarPanel(dimX, dimY))
    /\ lastCall' = Call("PanelSetup", <<angle, dimX, dimY>>, Void)
    /\ MountFrame

\* testSetup.setNPanel(nx, ny), lines 81-84
MountSetNPanel(nx, ny) ==
    /\ testSetup' = setNPanel(testSetup, nx, ny)
    /\ lastCall' = Call("setNPanel", <<nx, ny>>, Void)
    /\ MountFrame

\* testSetup.setAngle(a), line 78
MountSetAngle(a) ==
    /\ testSetup' = setAngle(testSetup, a)
    /\ lastCall' = Call("setAngle", <<a>>, Num(a))
    /\ MountFrame

\* testSetup.currentPower(a), lines 68-71
MountCurrentPower(a) ==
    /\ lastCall' = Call("currentPower", <<a>>, Num(currentPower(testSetup, a)))
    /\ UNCHANGED testSetup
    /\ MountFrame

\* testSetup.efficiency(a), lines 73-76
MountEfficiency(a) ==
    /\ lastCall' = Call("efficiency", <<a>>, efficiency(testSetup, a))
    /\ UNCHANGED testSetup
    /\ MountFrame

\* testSetup.currentPower(LuminationAngle(testSetup, source)), lines 182-183
MountIlluminate(source) ==
    /\ LET tmpLumi == LuminationAngle(testSetup, source)
       IN  lastCall' = Call("currentPower(LuminationAngle)", <<tmpLumi, source>>,
                            Num(currentPower(testSetup, tmpLumi)))
    /\ UNCHANGED testSetup
    /\ MountFrame

MountNext ==
    \/ \E a \in MountAngles : \E d \in MountDims : MountConstruct(a, d[1], d[2])
    \/ \E d \in MountDims : MountSetNPanel(d[1], d[2])
    \/ \E a \in MountAngles : MountSetAngle(a)
    \/ \E a \in QueryAngles : MountCurrentPower(a)
    \/ \E a \in QueryAngles : MountEfficiency(a)
    \/ \E a \in SweepAngles : MountIlluminate(Source(a))

SpecMount == MountInit /\ [][MountNext]_vars

\* every angle counted in steps of pi/16 that lies strictly between -pi/2 and
\* pi/2: the program's pi/2 = 1.57075 is below the true pi/2, so the two ends
\* -8 and 8 are inside
OpenHalfPi == -(pi \div 2) .. (pi \div 2)

\* C3: whatever the mount's orientation and element counts, currentPower at an
\* incidence whose cosine is <= 0 is exactly 0.
C3_NoPowerOutsideIllumination ==
    (lastCall.op \in {"currentPower", "currentPower(LuminationAngle)"}
        /\ stdcos(lastCall.args[1]) <= 0)
    => lastCall.res = Num(0)

\* a mount of non-zero (here negative) peak power asked at a negative cosine
C3_Witness ==
    /\ lastCall.op = "currentPower"
    /\ stdcos(lastCall.args[1]) < 0
    /\ maxPowerinW(getPanel(testSetup)) < 0
    /\ lastCall.res = Num(0)

\* C4 as stated: for every module with counts >= 0, zero included, and a1, a2
\* strictly between -pi/2 and pi/2, cos(a1) > cos(a2) gives
\* currentPower(a1) > currentPower(a2).
C4_StrictForEveryModule ==
    (lastCall.op = "currentPower"
        /\ getPanel(testSetup).m_dimx >= 0 /\ getPanel(testSetup).m_dimy >= 0
        /\ lastCall.args[1] \in OpenHalfPi)
    => \A a2 \in OpenHalfPi :
          stdcos(lastCall.args[1]) > stdcos(a2)
              => lastCall.res.val > currentPower(testSetup, a2)

\* C4 as amended: strictly greater for a module of positive peak power; for a
\* module with a zero count both powers are 0, so only >= holds.
C4_StrictForPositivePeakPower ==
    (lastCall.op = "currentPower"
        /\ getPanel(testSetup).m_dimx >= 0 /\ getPanel(testSetup).m_dimy >= 0
        /\ lastCall.args[1] \in OpenHalfPi)
    => \A a2 \in OpenHalfPi :
          stdcos(lastCall.args[1]) > stdcos(a2)
              => IF maxPowerinW(getPanel(testSetup)) > 0
                 THEN lastCall.res.val > currentPower(testSetup, a2)
                 ELSE lastCall.res.val = 0 /\ currentPower(testSetup, a2) = 0

C4_Witness ==
    /\ lastCall.op = "currentPower"
    /\ maxPowerinW(getPanel(testSetup)) > 0
    /\ lastCall.args[1] \in OpenHalfPi
    /\ \E a2 \in OpenHalfPi :
          /\ stdcos(lastCall.args[1]) > stdcos(a2)
          /\ lastCall.res.val > currentPower(testSetup, a2)
          /\ currentPower(testSetup, a2) > 0

\* C8: efficiency on a module of peak power 0 at a positive cosine ends in an
\* InvalidState error; otherwise it is 100 * currentPower / peakPower at a
\* positive cosine and 0 at any other.
C8_EfficiencyZeroPeakIsInvalidState ==
    lastCall.op = "efficiency" =>
        LET a == lastCall.args[1]
            peak == maxPowerinW(getPanel(testSetup))
        IN  IF stdcos(a) <= 0 THEN lastCall.res = Num(0)
            ELSE IF peak = 0 THEN lastCall.res.kind = "InvalidState"
            ELSE \* 100 * currentPower / peak, the quotient taken first: it is whole
                 /\ lastCall.res.kind = "value"
                 /\ Abs(currentPower(testSetup, a)) % Abs(peak) = 0
                 /\ lastCall.res.val = 100 * (Abs(currentPower(testSetup, a)) \div Abs(peak))

\* C9: a mount at orientation 0 under a source at angle 0 gets an incidence
\* whose cosine is not positive, and currentPower there is exactly 0.
C9_ZeroOrientationZeroSourceGivesZero ==
    (lastCall.op = "currentPower(LuminationAngle)"
        /\ getAngle(testSetup) = 0
        /\ getSourceAngle(lastCall.args[2]) = 0)
    => /\ lastCall.args[1] = pi \div 2
       /\ stdcos(lastCall.args[1]) <= 0
       /\ lastCall.res = Num(0)

----------------------------------------------------------------------------
(* Specification SpecPanel: the operations of one SolarPanel, testSetup's *)

PanelDims == {1, 2, 3, 10, 20, 30, 4097, Half, FloatMant + 1}

\* the counts whose peak power the 32-bit integers of the model can hold
PowerInRange(dimX, dimY) == Abs(IntMul(dimX, dimY)) <= IntMax \div (oneElementPowerinW + 1)

\* the panels whose area the 32-bit integers of the model can hold
AreaInRange(p) == dimXinCM(p) <= IntMax \div dimYinCM(p)

PanelInit ==
    /\ testSetup = TestSetup164
    /\ theSun = LightSource
    /\ powerPlant = SolarPlant
    /\ stray = FALSE
    /\ lastCall = NoCall
    /\ nops = 0
    /\ pc = "api"
    /\ idx = 0
    /\ samples = <<>>

\* SolarPanel(dimX, dimY) as the panel of testSetup, lines 42-43 and 164
PanelConstruct(dimX, dimY) ==
    /\ PowerInRange(dimX, dimY)
    /\ testSetup' = PanelSetup(getAngle(testSetup), SolarPanel(dimX, dimY))
    /\ lastCall' = Call("SolarPanel", <<dimX, dimY>>, Void)
    /\ MountFrame

\* testSetup.getPanel().shrinkXto(n), line 48
PanelShrinkXto(n) ==
    /\ PowerInRange(n, getPanel(testSetup).m_dimy)
    /\ testSetup' = [testSetup EXCEPT !.m_panel = shrinkXto(@, n)]
    /\ lastCall' = Call("shrinkXto", <<n>>, Void)
    /\ MountFrame

\* testSetup.getPanel().shrinkYto(n), line 49
PanelShrinkYto(n) ==
    /\ PowerInRange(getPanel(testSetup).m_dimx, n)
    /\ testSetup' = [testSetup EXCEPT !.m_panel = shrinkYto(@, n)]
    /\ lastCall' = Call("shrinkYto", <<n>>, Void)
    /\ MountFrame

\* testSetup.getPanel().areainCM2(), line 46
PanelArea ==
    /\ AreaInRange(getPanel(testSetup))
    /\ lastCall' = Call("areainCM2", <<>>, Num(areainCM2(getPanel(testSetup))))
    /\ UNCHANGED testSetup
    /\ MountFrame

\* testSetup.getPanel().maxPowerinW(), line 47. Where m_dimx * m_dimy overflows
\* the behaviour is undefined: the build's imul wraps around, a build that
\* traps on overflow ends the program.
PanelMaxPower ==
    /\ \E r \in {Num(maxPowerinW(getPanel(testSetup)))} \cup
                (IF IntMulOverflows(getPanel(testSetup).m_dimx, getPanel(testSetup).m_dimy)
                 THEN {Trap} ELSE {}) :
          lastCall' = Call("maxPowerinW", <<>>, r)
    /\ UNCHANGED testSetup
    /\ MountFrame

PanelNext ==
    \/ \E x \in PanelDims : \E y \in PanelDims : PanelConstruct(x, y)
    \/ \E n \in PanelDims : PanelShrinkXto(n)
    \/ \E n \in PanelDims : PanelShrinkYto(n)
    \/ PanelArea
    \/ PanelMaxPower

SpecPanel == PanelInit /\ [][PanelNext]_vars

\* v = k * x * y for x, y >= 1, decided by division so that the product x * y
\* itself, which may exceed 32 bits, is never formed
IsProduct(v, k, x, y) ==
    /\ v >= 0
    /\ v % k = 0
    /\ (v \div k) % x = 0
    /\ (v \div k) \div x = y

\* C5: for positive counts X, Y, area() is X * Y * 6 * 10 and peakPower() is
\* X * Y * 15, X * Y being the true product.
C5_AreaAndPeakPowerLinear ==
    LET X == getPanel(testSetup).m_dimx
        Y == getPanel(testSetup).m_dimy
    IN  /\ lastCall.op = "areainCM2" =>
              /\ lastCall.res.kind = "value"
              /\ IsProduct(lastCall.res.val, oneElementX * oneElementY, X, Y)
        /\ lastCall.op = "maxPowerinW" =>
              /\ lastCall.res.kind = "value"
              /\ IsProduct(lastCall.res.val, oneElementPowerinW, X, Y)

----------------------------------------------------------------------------
(* Specification SpecMain: main(), lines 162-226, one step per statement *)

MainInit ==
    /\ testSetup = TestSetup164
    /\ theSun = LightSource
    /\ powerPlant = SolarPlant
    /\ stray = FALSE
    /\ lastCall = NoCall
    /\ nops = 0
    /\ pc = "L165"
    /\ idx = 0
    /\ samples = <<>>

MainFrame == UNCHANGED <<stray, nops>>

\* testSetup.setNPanel(2, 3)
L165 ==
    /\ pc = "L165"
    /\ testSetup' = setNPanel(testSetup, 2, 3)
    /\ pc' = "L167"
    /\ UNCHANGED <<theSun, powerPlant, lastCall, idx, samples>>
    /\ MainFrame

\* cout << testSetup.currentPower(pi / 2) << "; " << testSetup.efficiency(pi)
L167 ==
    /\ pc = "L167"
    /\ lastCall' = Call("cout", <<pi \div 2, pi>>,
                        [kind |-> "line",
                         val |-> <<Num(currentPower(testSetup, pi \div 2)), efficiency(testSetup, pi)>>])
    /\ pc' = "L173"
    /\ UNCHANGED <<testSetup, theSun, powerPlant, idx, samples>>
    /\ MainFrame

\* theSun.setSourceAngle(-pi / 2); SolarPlant powerPlant; i = 0
L173 ==
    /\ pc = "L173"
    /\ theSun' = setSourceAngle(theSun, -(pi \div 2))
    /\ powerPlant' = SolarPlant
    /\ idx' = 0
    /\ pc' = "L175"
    /\ UNCHANGED <<testSetup, lastCall, samples>>
    /\ MainFrame

\* for (int i = 0; i < 10; i++) powerPlant.setPanelSetup(testSetup, i)
L175 ==
    /\ pc = "L175"
    /\ IF idx < 10
       THEN /\ powerPlant' = setPanelSetup(powerPlant, testSetup, idx)
            /\ idx' = idx + 1
            /\ pc' = pc
       ELSE /\ pc' = "L178"
            /\ UNCHANGED <<powerPlant, idx>>
    /\ UNCHANGED <<testSetup, theSun, lastCall, samples>>
    /\ MainFrame

\* while (theSun.getSourceAngle() < pi / 2)
L178 ==
    /\ pc = "L178"
    /\ pc' = IF getSourceAngle(theSun) < pi \div 2 THEN "L182" ELSE "L201"
    /\ UNCHANGED <<testSetup, theSun, powerPlant, lastCall, idx, samples>>
    /\ MainFrame

\* tmpLumi = LuminationAngle(testSetup, theSun);
\* cout << testSetup.currentPower(tmpLumi) << "; " << powerPlant.currentOutput(theSun)
L182 ==
    /\ pc = "L182"
    /\ LET tmpLumi == LuminationAngle(testSetup, theSun)
       IN  samples' = Append(samples,
               [sweep |-> 1, angle |-> getSourceAngle(theSun),
                single |-> currentPower(testSetup, tmpLumi),
                plant |-> currentOutput(powerPlant, theSun)])
    /\ pc' = "L184"
    /\ UNCHANGED <<testSetup, theSun, powerPlant, lastCall, idx>>
    /\ MainFrame

\* theSun.moveSourceAngleBy(pi / 16)
L184 ==
    /\ pc = "L184"
    /\ theSun' = moveSourceAngleBy(theSun, pi \div 16)
    /\ pc' = "L178"
    /\ UNCHANGED <<testSetup, powerPlant, lastCall, idx, samples>>
    /\ MainFrame

\* theSun.setSourceAngle(-pi / 2); element = 0
L201 ==
    /\ pc = "L201"
    /\ theSun' = setSourceAngle(theSun, -(pi \div 2))
    /\ idx' = 0
    /\ pc' = "L205"
    /\ UNCHANGED <<testSetup, powerPlant, lastCall, samples>>
    /\ MainFrame

\* for element in {0,1,2,3}: powerPlant.setPanelSetup(PanelSetup(pi / 4), element)
L205 ==
    /\ pc = "L205"
    /\ powerPlant' = setPanelSetup(powerPlant, PanelSetup(pi \div 4, DefaultPanel), idx)
    /\ pc' = "L206"
    /\ UNCHANGED <<testSetup, theSun, lastCall, idx, samples>>
    /\ MainFrame

\* powerPlant.setNelementXYofaPanel(10, 10, element)
L206 ==
    /\ pc = "L206"
    /\ powerPlant' = setNelementXYofaPanel(powerPlant, 10, 10, idx)
    /\ idx' = idx + 1
    /\ pc' = IF idx + 1 <= 3 THEN "L205" ELSE "L210"
    /\ UNCHANGED <<testSetup, theSun, lastCall, samples>>
    /\ MainFrame

\* for element in {4,5}: powerPlant.setPanelSetup(PanelSetup(pi / 2), element)
L210 ==
    /\ pc = "L210"
    /\ powerPlant' = setPanelSetup(powerPlant, PanelSetup(pi \div 2, DefaultPanel), idx)
    /\ idx' = idx + 1
    /\ pc' = IF idx + 1 <= 5 THEN "L210" ELSE "L213"
    /\ UNCHANGED <<testSetup, theSun, lastCall, samples>>
    /\ MainFrame

\* for element in {6,7,8,9}: powerPlant.setPanelSetup(PanelSetup(-pi / 4), element)
L213 ==
    /\ pc = "L213"
    /\ powerPlant' = setPanelSetup(powerPlant, PanelSetup(-(pi \div 4), DefaultPanel), idx)
    /\ idx' = idx + 1
    /\ pc' = IF idx + 1 <= 9 THEN "L213" ELSE "L215"
    /\ UNCHANGED <<testSetup, theSun, lastCall, samples>>
    /\ MainFrame

\* powerPlant.print()
L215 ==
    /\ pc = "L215"
    /\ lastCall' = Call("print", <<>>, [kind |-> "lines", val |-> print(powerPlant)])
    /\ pc' = "L218"
    /\ UNCHANGED <<testSetup, theSun, powerPlant, idx, samples>>
    /\ MainFrame

\* while (theSun.getSourceAngle() < pi / 2 + pi / 16)
L218 ==
    /\ pc = "L218"
    /\ pc' = IF getSourceAngle(theSun) < pi \div 2 + pi \div 16 THEN "L219" ELSE "done"
    /\ UNCHANGED <<testSetup, theSun, powerPlant, lastCall, idx, samples>>
    /\ MainFrame

\* cout << "Sun position: " << theSun.getSourceAngle() << "; Current output: "
\*      << powerPlant.currentOutput(theSun)
L219 ==
    /\ pc = "L219"
    /\ samples' = Append(samples,
           [sweep |-> 2, angle |-> getSourceAngle(theSun),
            single |-> 0,
            plant |-> currentOutput(powerPlant, theSun)])
    /\ pc' = "L220"
    /\ UNCHANGED <<testSetup, theSun, powerPlant, lastCall, idx>>
    /\ MainFrame

\* theSun.moveSourceAngleBy(pi / 16)
L220 ==
    /\ pc = "L220"
    /\ theSun' = moveSourceAngleBy(theSun, pi \div 16)
    /\ pc' = "L218"
    /\ UNCHANGED <<testSetup, powerPlant, lastCall, idx, samples>>
    /\ MainFrame

MainNext ==
    \/ L165 \/ L167 \/ L173 \/ L175 \/ L178 \/ L182 \/ L184 \/ L201
    \/ L205 \/ L206 \/ L210 \/ L213 \/ L215 \/ L218 \/ L219 \/ L220

SpecMain == MainInit /\ [][MainNext]_vars

\* the source angles sampled in one sweep, in the order sampled
SampledAngles(k) ==
    LET s == SelectSeq(samples, LAMBDA x : x.sweep = k)
    IN  [j \in 1 .. Len(s) |-> s[j].angle]

\* -pi/2, -pi/2 + pi/16, ..., +pi/2
FullSweep == [j \in 1 .. pi + 1 |-> -(pi \div 2) + (j - 1) * (pi \div 16)]

IsPrefix(s, t) == Len(s) <= Len(t) /\ \A j \in 1 .. Len(s) : s[j] = t[j]

\* C10: each sweep starts at -pi/2, moves only by +pi/16, samples at every step
\* from -pi/2 up to and including +pi/2 and at no step beyond, and ends.
C10_EachSweepCoversBothEnds ==
    /\ IsPrefix(SampledAngles(1), FullSweep)
    /\ IsPrefix(SampledAngles(2), FullSweep)
    /\ pc \in {"L201", "L205", "L206", "L210", "L213", "L215", "L218", "L219", "L220", "done"}
          => SampledAngles(1) = FullSweep
    /\ pc = "done" => SampledAngles(2) = FullSweep

====
